---- MODULE Spec2Model ----
(***************************************************************************)
(* Model of the e-mail digest pipeline of src/email_summarizer:            *)
(*   EmailReaderTool._run  (intake, registers the batch in the store)      *)
(*   _process_emails_parallel (thread pool + as_completed collect loop)    *)
(*   _generate_and_save_archive, compose_final_html_body                   *)
(*   EmailSenderTool._run under tenacity retry, _send_email                *)
(*   mark_emails_as_unprocessed (rollback) and run_pipeline's handlers     *)
(* One behaviour is a sequence of runs (process invocations) over one      *)
(* mailbox; the two state files persist between the runs.                  *)
(***************************************************************************)
EXTENDS Integers, Sequences, FiniteSets, TLC

VARIABLES
    mailbox,        \* folder -> set of UIDs that match the search
    store,          \* the file at email_reader.STATE_PATH  (<root>/src/state/...)
    rootStore,      \* the file mark_emails_as_unprocessed opens (<root>/state/...)
    pc,             \* position of the coordinating thread in run_pipeline
    limit,          \* run_pipeline argument of the current run
    stub,           \* behaviour of summarizer_chain.invoke on each item in this run
    emails,         \* run_pipeline local: the batch returned by _read_emails
    fut,            \* state of each submitted future: queued / running / finished
    yielded,        \* positions as_completed has already handed to the loop
    summary_htmls,  \* _process_emails_parallel local: the result list
    should_continue,\* _process_emails_parallel local
    pending_exc,    \* exception travelling through the executor's __exit__
    archive_path,   \* run_pipeline local
    final_html_body,\* run_pipeline local: the cards rendered, in order
    attempts,       \* SMTP attempts made by EmailSenderTool._run in this run
    result,         \* dict returned by the latest run_pipeline call
    storeAtStart,   \* history: ids in the store when the current run started
    startedAfterFail, \* history: summarize calls started after item 1 failed
    intake_done,    \* history: the reader returned a batch in the current run
    prevIntake,     \* history: the previous run's intake, if nothing was delivered since
    deliveredIds,   \* history: ids summarized successfully in runs that ended "sent"
    send_error,     \* history: kind of the exception of the latest failed SMTP attempt
    rootStoreAtStart, \* history: the rollback's file when the current run started
    llm_error,      \* the error handed to handle_llm_error: the markers in str(error)
    snippet,        \* the argument of _extract_rating_from_html called on its own
    rating          \* what that call returned

vars == <<mailbox, store, rootStore, pc, limit, stub, emails, fut, yielded,
          summary_htmls, should_continue, pending_exc, archive_path,
          final_html_body, attempts, result, storeAtStart, startedAfterFail,
          intake_done, prevIntake, deliveredIds, send_error,
          rootStoreAtStart, llm_error, snippet, rating>>

-----------------------------------------------------------------------------
(* Bounds of the model *)
MaxUid == 2          \* UIDs of the small mailboxes are drawn from 1..MaxUid
BigBatch == 10       \* size of the one large INBOX (more items than workers)
MaxLen == 3          \* longest list handed to compose_final_html_body on its own
MaxStars == 2        \* highest rating of a card in those lists
MaxLines == 2        \* most lines, and most rating cells, of a rated text

(* Program constants *)
MaxWorkers == 8      \* chain.py:83     min(8, len(contents)) or 1
MinCount == 1        \* email_reader.py:189
MaxCount == 50       \* email_reader.py:189
StopAfterAttempt == 3 \* email_sender.py:78

GMAIL_CATEGORY_FOLDERS == <<"INBOX", "SPAM">>
Folders == {GMAIL_CATEGORY_FOLDERS[k] : k \in 1..Len(GMAIL_CATEGORY_FOLDERS)}

Min2(a, b) == IF a < b THEN a ELSE b
Max2(a, b) == IF a > b THEN a ELSE b
SetMax(S) == CHOOSE m \in S : \A x \in S : x <= m
SetMin(S) == CHOOSE m \in S : \A x \in S : m <= x

RECURSIVE SortedReverse(_)
SortedReverse(S) ==
    IF S = {} THEN <<>>
    ELSE LET m == SetMax(S) IN <<m>> \o SortedReverse(S \ {m})

Take(s, n) == SubSeq(s, 1, Min2(n, Len(s)))
Range(s) == {s[k] : k \in 1..Len(s)}

-----------------------------------------------------------------------------
(* The mailbox collaborator: what the IMAP server holds.                   *)
(* envelope.message_id of the message with this UID in this folder;        *)
(* 0 stands for a message without a Message-ID header.                     *)
MessageId(folder, uid) ==
    IF folder = "INBOX" THEN uid
    ELSE IF uid = 1 THEN 0          \* no Message-ID header
    ELSE IF uid = 2 THEN 1          \* the copy of INBOX message 1
    ELSE 100 + uid

\* uniq_id = mid if mid else f"uid-{uid}-{folder}"
UniqId(folder, uid) ==
    LET mid == MessageId(folder, uid) IN
    IF mid # 0 THEN [mid |-> mid, uid |-> 0, folder |-> "-"]
    ELSE [mid |-> 0, uid |-> uid, folder |-> folder]

Email(folder, uid) == [id |-> UniqId(folder, uid), folder |-> folder, uid |-> uid]

\* the star rating the summarizer gives the message (a function of its content)
Stars(e) == IF e.id.mid # 0 THEN e.id.mid % 3 ELSE 2

SmallMailboxes == [Folders -> SUBSET (1..MaxUid)]
BigMailbox == [f \in Folders |-> IF f = "INBOX" THEN 1..BigBatch ELSE {}]

\* values of --limit the runs are called with
Limits == {0, 60}

-----------------------------------------------------------------------------
(* The two state files *)
Missing == [kind |-> "missing", ids |-> {}]
File(ids) == [kind |-> "ok", ids |-> ids]

\* a file that is not parseable JSON: garbage, empty, or cut off in a write
Corrupt == [kind |-> "corrupt", ids |-> {}]
\* a file that holds valid JSON that is not an object, e.g. []
BadShape == [kind |-> "badshape", ids |-> {}]

\* state.get(...) on what _load_state returned raises AttributeError (line 191)
LoadStateRaises(file) == file.kind = "badshape"

\* EmailReaderTool._load_state followed by set(state.get("processed_ids", []))
LoadState(file) == IF file.kind = "ok" THEN file.ids ELSE {}

\* EmailReaderTool._save_state
SaveState(ids) == File(ids)

ClampCount(n) == Max2(MinCount, Min2(MaxCount, n))

\* ReadFolder without the "if uniq_id in processed_ids: continue" of line 269
ReadFolderNoFilter(mb, folder, max_count, processed_ids, acc) ==
    LET uids == mb[folder]
        latest_uids_in_folder == Take(SortedReverse(uids), max_count)
        uids_to_process == SelectSeq(latest_uids_in_folder,
                                     LAMBDA u : u \notin acc.session)
    IN [results |-> acc.results \o
                    [k \in 1..Len(uids_to_process) |-> Email(folder, uids_to_process[k])],
        session |-> acc.session \cup Range(uids_to_process)]

\* One iteration of "for folder_name_to_try in folders_to_read":
\* acc = [results, session] (results list, processed_uids_in_session)
ReadFolder(mb, folder, max_count, processed_ids, acc) ==
    LET uids == mb[folder]
        latest_uids_in_folder == Take(SortedReverse(uids), max_count)
        uids_to_process == SelectSeq(latest_uids_in_folder,
                                     LAMBDA u : u \notin acc.session)
        fresh == SelectSeq(uids_to_process,
                           LAMBDA u : UniqId(folder, u) \notin processed_ids)
    IN [results |-> acc.results \o [k \in 1..Len(fresh) |-> Email(folder, fresh[k])],
        session |-> acc.session \cup Range(fresh)]

RECURSIVE ReadFolders(_, _, _, _, _)
ReadFolders(mb, k, max_count, processed_ids, acc) ==
    IF k > Len(GMAIL_CATEGORY_FOLDERS) THEN acc
    ELSE ReadFolders(mb, k + 1, max_count, processed_ids,
                     ReadFolder(mb, GMAIL_CATEGORY_FOLDERS[k], max_count,
                                processed_ids, acc))

\* EmailReaderTool._run: the batch it returns
EmailReaderResults(mb, file, max_count_arg) ==
    ReadFolders(mb, 1, ClampCount(max_count_arg), LoadState(file),
                [results |-> <<>>, session |-> {}]).results

Ids(batch) == {batch[k].id : k \in 1..Len(batch)}

\* EmailReaderFile that saves the new ids without processed_ids.update
EmailReaderFileOverwrite(mb, file, max_count_arg) ==
    LET results == EmailReaderResults(mb, file, max_count_arg) IN
    IF Len(results) > 0 THEN SaveState(Ids(results)) ELSE file

\* EmailReaderTool._run: the file it leaves (lines 323-326)
EmailReaderFile(mb, file, max_count_arg) ==
    LET results == EmailReaderResults(mb, file, max_count_arg) IN
    IF Len(results) > 0
    THEN SaveState(LoadState(file) \cup Ids(results))
    ELSE file

\* MarkEmailsAsUnprocessed that drops every id of the file, not the batch's only
MarkEmailsAsUnprocessedAll(file, batch) ==
    IF file.kind = "ok" THEN File({}) ELSE file

\* mark_emails_as_unprocessed: what it does to the file it opens
MarkEmailsAsUnprocessed(file, batch) ==
    IF file.kind = "ok" THEN File(file.ids \ Ids(batch)) ELSE file

-----------------------------------------------------------------------------
(* Summaries *)
None == [kind |-> "None", src |-> UniqId("INBOX", 0), stars |-> 0]
EmptyStr == [kind |-> "empty", src |-> UniqId("INBOX", 0), stars |-> 0]
Card(e) == [kind |-> "card", src |-> e.id, stars |-> Stars(e)]
Truthy(s) == s.kind = "card"

\* what the summarizer stub can do with an item
Outcomes == {"ok", "empty", "hang", "E401", "E429"}
Errors == {"E401", "E429"}

\* the substrings handle_llm_error looks for, as they occur in str(error)
ErrorStr(o) ==
    IF o = "E401" THEN {"401", "Unauthorized"}
    ELSE IF o = "E429" THEN {"429", "rate limit"}
    ELSE {}

\* the substrings handle_llm_error looks for, in the spellings in which a
\* message can hold them; a message is the set of those that occur in it
ErrorMarks == {"401", "Unauthorized", "402", "Insufficient credits", "404", "429",
               "Connection", "timeout", "Timeout", "model", "Model",
               "rate limit", "Rate limit"}

\* str.lower() on a marker
LowerOf(m) ==
    CASE m = "Unauthorized" -> "unauthorized"
      [] m = "Insufficient credits" -> "insufficient credits"
      [] m = "Connection" -> "connection"
      [] m = "Timeout" -> "timeout"
      [] m = "Model" -> "model"
      [] m = "Rate limit" -> "rate limit"
      [] OTHER -> m

\* the markers that occur in error_str.lower()
Lower(error_str) == {LowerOf(m) : m \in error_str}

\* HandleLlmError that stops the processing on every error
HandleLlmErrorStop(error_str) == FALSE

\* handle_llm_error: the should_continue it returns
HandleLlmError(error_str) ==
    IF "402" \in error_str /\ "Insufficient credits" \in error_str THEN FALSE
    ELSE IF "401" \in error_str \/ "Unauthorized" \in error_str THEN FALSE
    ELSE IF "Connection" \in error_str \/ "timeout" \in Lower(error_str) THEN TRUE
    ELSE IF "404" \in error_str \/ "model" \in Lower(error_str) THEN FALSE
    ELSE IF "429" \in error_str \/ "rate limit" \in Lower(error_str) THEN TRUE
    ELSE TRUE

\* An argument of _extract_rating_from_html, as far as the function looks at
\* it: whether it is a str; cells = the number of filled stars in the text of
\* each <td> the regular expression of line 20 can match, in their order;
\* lines = for each line of the text, its filled stars and whether it has a
\* hollow star.
NotAStr == [isstr |-> FALSE, cells |-> <<>>, lines |-> <<>>]

SeqsUpTo(S, n) == UNION {[1..k -> S] : k \in 0..n}

HtmlSnippets ==
    {NotAStr} \cup
    [isstr : {TRUE},
     cells : SeqsUpTo(0..MaxStars, MaxLines),
     lines : SeqsUpTo([filled : 0..MaxStars, hollow : BOOLEAN], MaxLines)]

\* the text of an entry of the result list
HtmlOf(s) ==
    IF s.kind = "None" THEN NotAStr
    ELSE IF s.kind = "card"
         THEN [isstr |-> TRUE, cells |-> <<s.stars>>, lines |-> <<>>]
         ELSE [isstr |-> TRUE, cells |-> <<>>, lines |-> <<>>]

\* the lines the fallback search stops at: "if '★' in line or '☆' in line"
StarLines(html_snippet) ==
    {k \in DOMAIN html_snippet.lines :
        html_snippet.lines[k].filled > 0 \/ html_snippet.lines[k].hollow}

\* ExtractRatingFromHtml without the search for the rating cell
ExtractRatingFromLinesOnly(html_snippet) ==
    IF ~html_snippet.isstr THEN 0
    ELSE IF StarLines(html_snippet) = {} THEN 0
    ELSE html_snippet.lines[SetMin(StarLines(html_snippet))].filled

\* _extract_rating_from_html
ExtractRatingFromHtml(html_snippet) ==
    IF ~html_snippet.isstr THEN 0
    ELSE IF html_snippet.cells # <<>> THEN html_snippet.cells[1]
    ELSE IF StarLines(html_snippet) = {} THEN 0
    ELSE html_snippet.lines[SetMin(StarLines(html_snippet))].filled

\* SortedByRating with an unstable sort: among equal ratings the last comes first
RECURSIVE SortedByRatingUnstable(_)
SortedByRatingUnstable(cards) ==
    IF Len(cards) = 0 THEN <<>>
    ELSE LET best == SetMax({ExtractRatingFromHtml(HtmlOf(cards[k])) : k \in 1..Len(cards)})
             first == CHOOSE k \in 1..Len(cards) :
                         /\ ExtractRatingFromHtml(HtmlOf(cards[k])) = best
                         /\ \A j \in (k + 1)..Len(cards) :
                                ExtractRatingFromHtml(HtmlOf(cards[j])) # best
             rest == [j \in 1..(Len(cards) - 1) |->
                         IF j < first THEN cards[j] ELSE cards[j + 1]]
         IN <<cards[first]>> \o SortedByRatingUnstable(rest)

\* sorted(valid, key=_extract_rating_from_html, reverse=True): stable
RECURSIVE SortedByRating(_)
SortedByRating(cards) ==
    IF Len(cards) = 0 THEN <<>>
    ELSE LET best == SetMax({ExtractRatingFromHtml(HtmlOf(cards[k])) : k \in 1..Len(cards)})
             first == CHOOSE k \in 1..Len(cards) :
                         /\ ExtractRatingFromHtml(HtmlOf(cards[k])) = best
                         /\ \A j \in 1..(k - 1) : ExtractRatingFromHtml(HtmlOf(cards[j])) # best
             rest == [j \in 1..(Len(cards) - 1) |->
                         IF j < first THEN cards[j] ELSE cards[j + 1]]
         IN <<cards[first]>> \o SortedByRating(rest)

\* compose_final_html_body: the cards of the body, in order
ComposeFinalHtmlBody(htmls) == SortedByRating(SelectSeq(htmls, Truthy))

\* the entries a summary_htmls list can hold: None, "", or a card with a rating row
SummaryValues ==
    {None, EmptyStr} \cup
    {[kind |-> "card", src |-> UniqId("INBOX", u), stars |-> r] :
        u \in 1..2, r \in 0..MaxStars}

SummaryLists == UNION {[1..n -> SummaryValues] : n \in 0..MaxLen}

\* MaxConcurrency without the cap of 8
MaxConcurrencyUncapped(n) == IF n = 0 THEN 1 ELSE n

\* max_concurrency = min(8, len(contents)) or 1
MaxConcurrency(n) == LET m == Min2(MaxWorkers, n) IN IF m = 0 THEN 1 ELSE m

Running == {i \in DOMAIN fut : fut[i] = "running"}
Queued == {i \in DOMAIN fut : fut[i] = "queued"}

NoResult == [status |-> "none", has_count |-> FALSE, email_count |-> 0]
Result(status, batch) ==
    [status |-> status, has_count |-> TRUE, email_count |-> Len(batch)]

NoIntake == [valid |-> FALSE, limit |-> 0, batch |-> <<>>]

\* the summarizer behaviours tried on a batch of n items
Stubs(n) ==
    IF n <= MaxUid + 1 THEN [1..n -> Outcomes]
    ELSE {[i \in 1..n |-> IF i = 1 THEN "E401" ELSE "ok"],
          [i \in 1..n |-> "ok"]}

-----------------------------------------------------------------------------
\* the locals of a process that has not called run_pipeline yet
InitRun ==
    /\ pc = "idle"
    /\ limit = 0
    /\ stub = <<>>
    /\ emails = <<>>
    /\ fut = <<>>
    /\ yielded = {}
    /\ summary_htmls = <<>>
    /\ should_continue = TRUE
    /\ pending_exc = "none"
    /\ archive_path = FALSE
    /\ final_html_body = <<>>
    /\ attempts = 0
    /\ result = NoResult
    /\ storeAtStart = File({})
    /\ startedAfterFail = 0
    /\ intake_done = FALSE
    /\ prevIntake = NoIntake
    /\ deliveredIds = {}
    /\ send_error = "none"

Init ==
    /\ mailbox \in SmallMailboxes
    /\ store = File({})
    /\ rootStore \in {Missing, File({UniqId("INBOX", 1)})}
    /\ rootStoreAtStart = rootStore
    /\ InitRun
    /\ llm_error = {}
    /\ snippet = NotAStr
    /\ rating = 0

\* the large-batch scenario: one INBOX with more messages than pool threads
InitBig ==
    /\ mailbox = BigMailbox
    /\ store = File({})
    /\ rootStore = Missing
    /\ rootStoreAtStart = rootStore
    /\ InitRun
    /\ llm_error = {}
    /\ snippet = NotAStr
    /\ rating = 0

\* compose_final_html_body called on its own with any list of entries
InitCompose ==
    /\ mailbox = [f \in Folders |-> {}]
    /\ store = File({})
    /\ rootStore = Missing
    /\ rootStoreAtStart = rootStore
    /\ pc = "compose"
    /\ limit = 0
    /\ stub = <<>>
    /\ emails = <<>>
    /\ fut = <<>>
    /\ yielded = {}
    /\ summary_htmls \in SummaryLists
    /\ should_continue = TRUE
    /\ pending_exc = "none"
    /\ archive_path = FALSE
    /\ final_html_body = <<>>
    /\ attempts = 0
    /\ result = NoResult
    /\ storeAtStart = File({})
    /\ startedAfterFail = 0
    /\ intake_done = FALSE
    /\ prevIntake = NoIntake
    /\ deliveredIds = {}
    /\ send_error = "none"
    /\ llm_error = {}
    /\ snippet = NotAStr
    /\ rating = 0

\* the reader's state file in any condition an earlier process can leave it in
StoreFiles == {Missing, Corrupt, BadShape, File({})}

InitStore ==
    /\ mailbox \in SmallMailboxes
    /\ store \in StoreFiles
    /\ rootStore \in {Missing, File({UniqId("INBOX", 1)})}
    /\ rootStoreAtStart = rootStore
    /\ InitRun
    /\ llm_error = {}
    /\ snippet = NotAStr
    /\ rating = 0

\* handle_llm_error called on its own with any error message
InitErr ==
    /\ mailbox = [f \in Folders |-> {}]
    /\ store = File({})
    /\ rootStore = Missing
    /\ rootStoreAtStart = rootStore
    /\ InitRun
    /\ llm_error \in SUBSET ErrorMarks
    /\ snippet = NotAStr
    /\ rating = 0

\* _extract_rating_from_html called on its own with any argument
InitRating ==
    /\ mailbox = [f \in Folders |-> {}]
    /\ store = File({})
    /\ rootStore = Missing
    /\ rootStoreAtStart = rootStore
    /\ InitRun
    /\ llm_error = {}
    /\ snippet \in HtmlSnippets
    /\ rating = 0

-----------------------------------------------------------------------------
(* main.py: one more invocation of run_pipeline (chain.py:253-254) *)
StartRunWith(limits) ==
    /\ pc \in {"idle", "done"}
    /\ pc' = "read"
    /\ limit' \in limits
    /\ emails' = <<>>
    /\ stub' = <<>>
    /\ fut' = <<>>
    /\ yielded' = {}
    /\ summary_htmls' = <<>>
    /\ should_continue' = TRUE
    /\ pending_exc' = "none"
    /\ archive_path' = FALSE
    /\ final_html_body' = <<>>
    /\ attempts' = 0
    /\ result' = NoResult
    /\ storeAtStart' = store
    /\ startedAfterFail' = 0
    /\ intake_done' = FALSE
    /\ prevIntake' = IF intake_done /\ result.status # "sent"
                     THEN [valid |-> TRUE, limit |-> limit, batch |-> emails]
                     ELSE NoIntake
    /\ UNCHANGED <<mailbox, store, rootStore, deliveredIds>>
    /\ send_error' = "none"
    /\ rootStoreAtStart' = rootStore
    /\ UNCHANGED <<llm_error, snippet, rating>>

StartRun == StartRunWith(Limits)

\* the single run of the large-batch scenario
StartRunBig == pc = "idle" /\ StartRunWith({60})

\* what EmailReaderTool._run returns: {"emails": [...]} or {"error": ...}
ReaderEmails(batch) == [kind |-> "emails", emails |-> batch]
ReaderError == [kind |-> "error", emails |-> <<>>]

\* ExtractEmailContents that takes the error text for a message
ExtractEmailContentsKeepsError(reader_output) ==
    IF reader_output.kind = "emails" THEN reader_output.emails
    ELSE <<Email("INBOX", 1)>>

\* extract_email_contents: data.get("emails", [])
ExtractEmailContents(reader_output) ==
    IF reader_output.kind = "emails" THEN reader_output.emails ELSE <<>>

\* NoNewEmails that never sees an empty batch
NoNewEmailsNever(batch) == FALSE

\* "if not emails:" (chain.py:258)
NoNewEmails(batch) == Len(batch) = 0

\* _read_emails: EmailReaderTool._run returns the batch and saves the state
ReadEmails ==
    /\ pc = "read"
    /\ ~LoadStateRaises(store)
    /\ emails' = ExtractEmailContents(
                      ReaderEmails(EmailReaderResults(mailbox, store, limit)))
    /\ store' = EmailReaderFile(mailbox, store, limit)
    /\ intake_done' = TRUE
    /\ IF NoNewEmails(emails')
       THEN /\ pc' = "done"
            /\ result' = [status |-> "no_new_emails", has_count |-> FALSE,
                          email_count |-> 0]
       ELSE /\ pc' = "summarize"
            /\ result' = result
    /\ UNCHANGED <<mailbox, rootStore, limit, stub, fut, yielded, summary_htmls,
                   should_continue, pending_exc, archive_path, final_html_body,
                   attempts, storeAtStart, startedAfterFail, prevIntake, deliveredIds>>
    /\ UNCHANGED <<send_error, rootStoreAtStart, llm_error, snippet, rating>>

\* _read_emails when the reader returns {"error": ...} (email_reader.py:333-340)
ReadEmailsFails ==
    /\ pc = "read"
    /\ ~LoadStateRaises(store)
    /\ emails' = ExtractEmailContents(ReaderError)
    /\ IF NoNewEmails(emails')
       THEN /\ pc' = "done"
            /\ result' = [status |-> "no_new_emails", has_count |-> FALSE,
                          email_count |-> 0]
       ELSE /\ pc' = "summarize"
            /\ result' = result
    /\ UNCHANGED <<mailbox, store, rootStore, limit, stub, fut, yielded,
                   summary_htmls, should_continue, pending_exc, archive_path,
                   final_html_body, attempts, storeAtStart, startedAfterFail,
                   intake_done, prevIntake, deliveredIds>>
    /\ UNCHANGED <<send_error, rootStoreAtStart, llm_error, snippet, rating>>

\* _process_emails_parallel, lines 80-98: executor created, every item submitted
Submit ==
    /\ pc = "summarize"
    /\ stub' \in Stubs(Len(emails))
    /\ fut' = [i \in 1..Len(emails) |-> "queued"]
    /\ summary_htmls' = [i \in 1..Len(emails) |-> None]
    /\ yielded' = {}
    /\ should_continue' = TRUE
    /\ pc' = "collect"
    /\ UNCHANGED <<mailbox, store, rootStore, limit, emails, pending_exc,
                   archive_path, final_html_body, attempts, result, storeAtStart,
                   startedAfterFail, intake_done, prevIntake, deliveredIds>>
    /\ UNCHANGED <<send_error, rootStoreAtStart, llm_error, snippet, rating>>

\* Submit with a summarizer that returns a card for every item
SubmitOk ==
    /\ pc = "summarize"
    /\ stub' = [i \in 1..Len(emails) |-> "ok"]
    /\ fut' = [i \in 1..Len(emails) |-> "queued"]
    /\ summary_htmls' = [i \in 1..Len(emails) |-> None]
    /\ yielded' = {}
    /\ should_continue' = TRUE
    /\ pc' = "collect"
    /\ UNCHANGED <<mailbox, store, rootStore, limit, emails, pending_exc,
                   archive_path, final_html_body, attempts, result, storeAtStart,
                   startedAfterFail, intake_done, prevIntake, deliveredIds,
                   send_error, rootStoreAtStart, llm_error, snippet, rating>>

\* the first item's call has ended with an error that stops the processing
FirstItemFailedFatal ==
    /\ 1 \in DOMAIN fut
    /\ fut[1] = "finished"
    /\ stub[1] \in Errors
    /\ ~HandleLlmError(ErrorStr(stub[1]))

\* a pool thread takes the next work item off the queue and calls the summarizer
WorkerStart(i) ==
    /\ i \in Queued
    /\ \A j \in Queued : i <= j
    /\ Cardinality(Running) < MaxConcurrency(Len(emails))
    /\ fut' = [fut EXCEPT ![i] = "running"]
    /\ startedAfterFail' = IF FirstItemFailedFatal
                           THEN startedAfterFail + 1 ELSE startedAfterFail
    /\ UNCHANGED <<mailbox, store, rootStore, pc, limit, stub, emails, yielded,
                   summary_htmls, should_continue, pending_exc, archive_path,
                   final_html_body, attempts, result, storeAtStart, intake_done,
                   prevIntake, deliveredIds>>
    /\ UNCHANGED <<send_error, rootStoreAtStart, llm_error, snippet, rating>>

\* WorkerFinish in which the pool thread stores its result in the list itself
WorkerFinishWrites(i) ==
    /\ i \in Running
    /\ stub[i] # "hang"
    /\ fut' = [fut EXCEPT ![i] = "finished"]
    /\ summary_htmls' =
          IF stub[i] = "ok" THEN [summary_htmls EXCEPT ![i] = Card(emails[i])]
          ELSE summary_htmls
    /\ UNCHANGED <<mailbox, store, rootStore, pc, limit, stub, emails, yielded,
                   should_continue, pending_exc, archive_path,
                   final_html_body, attempts, result, storeAtStart,
                   startedAfterFail, intake_done, prevIntake, deliveredIds>>
    /\ UNCHANGED <<send_error, rootStoreAtStart, llm_error, snippet, rating>>

\* summarizer_chain.invoke returns or raises in its pool thread
WorkerFinish(i) ==
    /\ i \in Running
    /\ stub[i] # "hang"
    /\ fut' = [fut EXCEPT ![i] = "finished"]
    /\ UNCHANGED <<mailbox, store, rootStore, pc, limit, stub, emails, yielded,
                   summary_htmls, should_continue, pending_exc, archive_path,
                   final_html_body, attempts, result, storeAtStart,
                   startedAfterFail, intake_done, prevIntake, deliveredIds>>
    /\ UNCHANGED <<send_error, rootStoreAtStart, llm_error, snippet, rating>>

\* ResultIndex that stores the results in completion order
ResultIndexByCompletion(i, done) == Cardinality(done) + 1

\* index = future_to_content[future]
ResultIndex(i, done) == i

\* ResultsOnError that drops what was collected when the error stops the loop
ResultsOnErrorCleared(htmls, continue) ==
    IF continue THEN htmls ELSE [k \in DOMAIN htmls |-> None]

\* the except branch (lines 117-127) does not assign summary_htmls
ResultsOnError(htmls, continue) == htmls

\* what the loop body stores for a future that returned (lines 108-110)
StoredResult(i) == IF stub[i] = "ok" THEN Card(emails[i]) ELSE EmptyStr

\* one iteration of "for future in as_completed(...)" (lines 100-127)
Collect(i) ==
    /\ pc = "collect"
    /\ i \in DOMAIN fut
    /\ i \notin yielded
    /\ fut[i] = "finished"
    /\ yielded' = yielded \cup {i}
    /\ IF stub[i] \in Errors
       THEN /\ should_continue' = HandleLlmError(ErrorStr(stub[i]))
            /\ summary_htmls' = ResultsOnError(summary_htmls, should_continue')
            /\ pc' = IF should_continue' THEN "collect" ELSE "pool_exit"
       ELSE /\ summary_htmls' =
                  [summary_htmls EXCEPT ![ResultIndex(i, yielded)] = StoredResult(i)]
            /\ should_continue' = should_continue
            /\ pc' = "collect"
    /\ UNCHANGED <<mailbox, store, rootStore, limit, stub, emails, fut,
                   pending_exc, archive_path, final_html_body, attempts, result,
                   storeAtStart, startedAfterFail, intake_done, prevIntake, deliveredIds>>
    /\ UNCHANGED <<send_error, rootStoreAtStart, llm_error, snippet, rating>>

\* as_completed is exhausted: the for loop ends and the with block is left
LoopEnd ==
    /\ pc = "collect"
    /\ yielded = DOMAIN fut
    /\ pc' = "pool_exit"
    /\ UNCHANGED <<mailbox, store, rootStore, limit, stub, emails, fut, yielded,
                   summary_htmls, should_continue, pending_exc, archive_path,
                   final_html_body, attempts, result, storeAtStart,
                   startedAfterFail, intake_done, prevIntake, deliveredIds>>
    /\ UNCHANGED <<send_error, rootStoreAtStart, llm_error, snippet, rating>>

\* as_completed(..., timeout=60) raises TimeoutError with futures outstanding
Timeout ==
    /\ pc = "collect"
    /\ yielded # DOMAIN fut
    /\ pending_exc' = "TimeoutError"
    /\ pc' = "pool_exit"
    /\ UNCHANGED <<mailbox, store, rootStore, limit, stub, emails, fut, yielded,
                   summary_htmls, should_continue, archive_path, final_html_body,
                   attempts, result, storeAtStart, startedAfterFail, intake_done,
                   prevIntake, deliveredIds>>
    /\ UNCHANGED <<send_error, rootStoreAtStart, llm_error, snippet, rating>>

\* run_pipeline's except clauses: rollback, then the result dict
Handler(status) ==
    /\ rootStore' = MarkEmailsAsUnprocessed(rootStore, emails)
    /\ result' = Result(status, emails)
    /\ pc' = "done"

\* StatusOf that reports every exception of the concurrent phase as a timeout
StatusOfAlwaysTimeout(exc) == "timeout"

\* "except (KeyboardInterrupt, TimeoutError) as e" (chain.py:294-296)
StatusOf(exc) == IF exc = "TimeoutError" THEN "timeout" ELSE "interrupted"

\* EmailReaderTool._run raises before its try block; run_pipeline's
\* "except Exception" handles it
ReadEmailsRaises ==
    /\ pc = "read"
    /\ LoadStateRaises(store)
    /\ Handler("error")
    /\ UNCHANGED <<mailbox, store, limit, stub, emails, fut, yielded,
                   summary_htmls, should_continue, pending_exc, archive_path,
                   final_html_body, attempts, storeAtStart, startedAfterFail,
                   intake_done, prevIntake, deliveredIds, send_error,
                   rootStoreAtStart, llm_error, snippet, rating>>

\* KeyboardInterrupt in _save_state between open(STATE_PATH, "w"), which
\* empties the file, and the end of json.dump; _read_emails has not returned
InterruptDuringSave ==
    /\ pc = "read"
    /\ ~LoadStateRaises(store)
    /\ Len(EmailReaderResults(mailbox, store, limit)) > 0
    /\ store' = Corrupt
    /\ Handler("interrupted")
    /\ UNCHANGED <<mailbox, limit, stub, emails, fut, yielded,
                   summary_htmls, should_continue, pending_exc, archive_path,
                   final_html_body, attempts, storeAtStart, startedAfterFail,
                   intake_done, prevIntake, deliveredIds, send_error,
                   rootStoreAtStart, llm_error, snippet, rating>>

\* a second KeyboardInterrupt while mark_emails_as_unprocessed rewrites its
\* file (lines 231-232); it is not an Exception, so it leaves run_pipeline
InterruptDuringRollback ==
    /\ pc \in {"read", "summarize", "archive", "compose", "send"}
    /\ rootStore.kind = "ok"
    /\ rootStore' = Corrupt
    /\ result' = NoResult
    /\ pc' = "done"
    /\ UNCHANGED <<mailbox, store, limit, stub, emails, fut, yielded,
                   summary_htmls, should_continue, pending_exc, archive_path,
                   final_html_body, attempts, storeAtStart, startedAfterFail,
                   intake_done, prevIntake, deliveredIds, send_error,
                   rootStoreAtStart, llm_error, snippet, rating>>

\* ThreadPoolExecutor.__exit__: shutdown(wait=True) joins every pool thread,
\* which first run every work item still in the queue
PoolExit ==
    /\ pc = "pool_exit"
    /\ Running = {}
    /\ Queued = {}
    /\ IF pending_exc = "none"
       THEN /\ pc' = "archive"
            /\ UNCHANGED <<rootStore, result>>
       ELSE Handler(StatusOf(pending_exc))
    /\ UNCHANGED <<mailbox, store, limit, stub, emails, fut, yielded,
                   summary_htmls, should_continue, pending_exc, archive_path,
                   final_html_body, attempts, storeAtStart, startedAfterFail,
                   intake_done, prevIntake, deliveredIds>>
    /\ UNCHANGED <<send_error, rootStoreAtStart, llm_error, snippet, rating>>

\* KeyboardInterrupt in the coordinating thread; inside the collect loop it
\* first has to pass the executor's __exit__
Interrupt ==
    /\ pc \in {"read", "summarize", "collect", "pool_exit", "archive", "compose", "send"}
    /\ IF pc = "collect"
       THEN /\ pending_exc' = "KeyboardInterrupt"
            /\ pc' = "pool_exit"
            /\ UNCHANGED <<rootStore, result>>
       ELSE /\ Handler("interrupted")
            /\ pending_exc' = pending_exc
    /\ UNCHANGED <<mailbox, store, limit, stub, emails, fut, yielded,
                   summary_htmls, should_continue, archive_path, final_html_body,
                   attempts, storeAtStart, startedAfterFail, intake_done,
                   prevIntake, deliveredIds>>
    /\ UNCHANGED <<send_error, rootStoreAtStart, llm_error, snippet, rating>>

\* aggregate_report_for_attachment calls html.strip() on every entry
AggregateRaises(htmls, batch) ==
    \E k \in 1..Min2(Len(htmls), Len(batch)) : htmls[k] = None

\* _generate_and_save_archive (lines 144-174)
Archive ==
    /\ pc = "archive"
    /\ ~(\E k \in 1..Len(summary_htmls) : Truthy(summary_htmls[k])
         /\ AggregateRaises(summary_htmls, emails))
    /\ IF \E k \in 1..Len(summary_htmls) : Truthy(summary_htmls[k])
       THEN archive_path' \in BOOLEAN
       ELSE archive_path' = FALSE
    /\ pc' = "compose"
    /\ UNCHANGED <<mailbox, store, rootStore, limit, stub, emails, fut, yielded,
                   summary_htmls, should_continue, pending_exc, final_html_body,
                   attempts, result, storeAtStart, startedAfterFail, intake_done,
                   prevIntake, deliveredIds>>
    /\ UNCHANGED <<send_error, rootStoreAtStart, llm_error, snippet, rating>>

\* the AttributeError of aggregate_report_for_attachment reaches "except Exception"
ArchiveRaises ==
    /\ pc = "archive"
    /\ \E k \in 1..Len(summary_htmls) : Truthy(summary_htmls[k])
    /\ AggregateRaises(summary_htmls, emails)
    /\ Handler("error")
    /\ UNCHANGED <<mailbox, store, limit, stub, emails, fut, yielded,
                   summary_htmls, should_continue, pending_exc, archive_path,
                   final_html_body, attempts, storeAtStart, startedAfterFail,
                   intake_done, prevIntake, deliveredIds>>
    /\ UNCHANGED <<send_error, rootStoreAtStart, llm_error, snippet, rating>>

\* compose_final_html_body (run_pipeline line 267)
Compose ==
    /\ pc = "compose"
    /\ final_html_body' = ComposeFinalHtmlBody(summary_htmls)
    /\ pc' = "send"
    /\ UNCHANGED <<mailbox, store, rootStore, limit, stub, emails, fut, yielded,
                   summary_htmls, should_continue, pending_exc, archive_path,
                   attempts, result, storeAtStart, startedAfterFail, intake_done,
                   prevIntake, deliveredIds>>
    /\ UNCHANGED <<send_error, rootStoreAtStart, llm_error, snippet, rating>>

\* StopAfter that allows one attempt more
StopAfterOneMore(attempt_number) == attempt_number >= StopAfterAttempt + 1

\* stop=stop_after_attempt(3): tenacity gives up after this attempt
StopAfter(attempt_number) == attempt_number >= StopAfterAttempt

\* one attempt of EmailSenderTool._run that delivers; run_pipeline returns
SendAttemptOk ==
    /\ pc = "send"
    /\ ~StopAfter(attempts)
    /\ attempts' = attempts + 1
    /\ result' = [status |-> "sent", has_count |-> TRUE, email_count |-> Len(emails)]
    /\ deliveredIds' = deliveredIds \cup
           {emails[k].id : k \in {j \in 1..Len(emails) : Truthy(summary_htmls[j])}}
    /\ pc' = "done"
    /\ UNCHANGED <<mailbox, store, rootStore, limit, stub, emails, fut, yielded,
                   summary_htmls, should_continue, pending_exc, archive_path,
                   final_html_body, storeAtStart, startedAfterFail, intake_done,
                   prevIntake>>
    /\ UNCHANGED <<send_error, rootStoreAtStart, llm_error, snippet, rating>>

\* what an SMTP attempt can fail with: a dropped connection or timeout, or
\* SMTPAuthenticationError / SMTPRecipientsRefused
SendErrors == {"transient", "fatal"}

\* @retry without a retry= argument: tenacity retries on every exception
RetryOn(kind) == TRUE

\* one attempt that raises; when tenacity gives up, run_pipeline rolls back and
\* returns send_failed (lines 275-283)
SendAttemptFails ==
    /\ pc = "send"
    /\ ~StopAfter(attempts)
    /\ attempts' = attempts + 1
    /\ \E kind \in SendErrors :
          /\ send_error' = kind
          /\ IF StopAfter(attempts') \/ ~RetryOn(kind)
             THEN Handler("send_failed")
             ELSE UNCHANGED <<rootStore, result, pc>>
    /\ UNCHANGED <<mailbox, store, limit, stub, emails, fut, yielded,
                   summary_htmls, should_continue, pending_exc, archive_path,
                   final_html_body, storeAtStart, startedAfterFail, intake_done,
                   prevIntake, deliveredIds, rootStoreAtStart, llm_error, snippet,
                   rating>>

Next ==
    \/ StartRun
    \/ ReadEmails
    \/ ReadEmailsFails
    \/ Submit
    \/ \E i \in DOMAIN fut : WorkerStart(i)
    \/ \E i \in DOMAIN fut : WorkerFinish(i)
    \/ \E i \in DOMAIN fut : Collect(i)
    \/ LoopEnd
    \/ Timeout
    \/ PoolExit
    \/ Interrupt
    \/ Archive
    \/ ArchiveRaises
    \/ Compose
    \/ SendAttemptOk
    \/ SendAttemptFails

Spec == Init /\ [][Next]_vars

\* one run over the large batch, in which neither the operator interrupts nor
\* the deadline of as_completed expires
NextBig ==
    \/ StartRunBig
    \/ ReadEmails
    \/ ReadEmailsFails
    \/ Submit
    \/ \E i \in DOMAIN fut : WorkerStart(i)
    \/ \E i \in DOMAIN fut : WorkerFinish(i)
    \/ \E i \in DOMAIN fut : Collect(i)
    \/ LoopEnd
    \/ PoolExit
    \/ Archive
    \/ ArchiveRaises
    \/ Compose
    \/ SendAttemptOk
    \/ SendAttemptFails

SpecBig == InitBig /\ [][NextBig]_vars

\* the concurrent phase of one run over the large batch, every call returning
NextPool ==
    \/ StartRunBig
    \/ ReadEmails
    \/ SubmitOk
    \/ \E i \in DOMAIN fut : WorkerStart(i)
    \/ \E i \in DOMAIN fut : WorkerFinish(i)
    \/ \E i \in DOMAIN fut : Collect(i)
    \/ LoopEnd
    \/ PoolExit

SpecPool == InitBig /\ [][NextPool]_vars

\* the runs with a state file in any condition and with writes that can be
\* cut short by the operator
NextStore ==
    \/ Next
    \/ ReadEmailsRaises
    \/ InterruptDuringSave
    \/ InterruptDuringRollback

SpecStore == InitStore /\ [][NextStore]_vars

\* error_msg, should_continue = handle_llm_error(e)  (chain.py:119)
HandleError ==
    /\ pc = "idle"
    /\ should_continue' = HandleLlmError(llm_error)
    /\ pc' = "classified"
    /\ UNCHANGED <<mailbox, store, rootStore, limit, stub, emails, fut, yielded,
                   summary_htmls, pending_exc, archive_path, final_html_body,
                   attempts, result, storeAtStart, startedAfterFail, intake_done,
                   prevIntake, deliveredIds, send_error, rootStoreAtStart,
                   llm_error, snippet, rating>>

\* handle_llm_error as a function of the error message
NextErr == HandleError

SpecErr == InitErr /\ [][NextErr]_vars

\* _extract_rating_from_html called on the text
ExtractRating ==
    /\ pc = "idle"
    /\ rating' = ExtractRatingFromHtml(snippet)
    /\ pc' = "rated"
    /\ UNCHANGED <<mailbox, store, rootStore, limit, stub, emails, fut, yielded,
                   summary_htmls, should_continue, pending_exc, archive_path,
                   final_html_body, attempts, result, storeAtStart,
                   startedAfterFail, intake_done, prevIntake, deliveredIds,
                   send_error, rootStoreAtStart, llm_error, snippet>>

\* _extract_rating_from_html as a function of its argument
NextRating == ExtractRating

SpecRating == InitRating /\ [][NextRating]_vars

\* compose_final_html_body as a function of its list argument
NextCompose == Compose

SpecCompose == InitCompose /\ [][NextCompose]_vars

-----------------------------------------------------------------------------
(* Properties *)

InRun == pc \in {"read", "summarize", "collect", "pool_exit", "archive", "compose", "send"}
AfterIntake == pc \in {"summarize", "collect", "pool_exit", "archive", "compose", "send"}
SchedulerReturned == pc \in {"archive", "compose", "send"}
Successes == {k \in 1..Len(summary_htmls) : Truthy(summary_htmls[k])}
IdsAt(S) == {emails[k].id : k \in S}

\* the scheduler has returned a list in which no entry is a non-empty summary
AllFailed ==
    /\ emails # <<>>
    /\ Len(summary_htmls) = Len(emails)
    /\ Successes = {}
    /\ \/ SchedulerReturned
       \/ pc = "done" /\ result.status \in {"sent", "send_failed", "error"}

\* C1: a run with a non-empty batch in which every item fails summarization
\* makes no delivery attempt, and at its end the store is what it was before
\* the run.
C1_ZeroSuccessAbort ==
    AllFailed =>
        /\ attempts = 0
        /\ pc = "done" => LoadState(store) = LoadState(storeAtStart)

\* C2: after a run that ended with delivery succeeded, the ids the run added
\* to the store are exactly the ids of the successfully summarized items, and
\* every failed item is returned again by the next intake.
C2_CommitOnlySuccesses ==
    (pc = "done" /\ result.status = "sent") =>
        /\ LoadState(store) \ LoadState(storeAtStart) = IdsAt(Successes)
        /\ \A k \in (1..Len(emails)) \ Successes :
               emails[k].id \in Ids(EmailReaderResults(mailbox, store, limit))

\* C3: a run that passed intake with a non-empty batch and ended without a
\* successful delivery leaves the store the next intake loads equal to the
\* store before the run.
C3_RollbackExact ==
    (/\ pc = "done"
     /\ intake_done
     /\ emails # <<>>
     /\ result.status \in {"send_failed", "timeout", "interrupted", "error"})
    => LoadState(store) = LoadState(storeAtStart)

C5_IntakeRepeatable ==
    (intake_done /\ prevIntake.valid /\ prevIntake.limit = limit)
    => emails = prevIntake.batch

C7_OrderPreserved ==
    SchedulerReturned =>
        /\ Len(summary_htmls) = Len(emails)
        /\ \A i \in 1..Len(emails) :
              IF i \in yielded /\ stub[i] = "ok"
              THEN summary_htmls[i] = Card(emails[i])
              ELSE ~Truthy(summary_htmls[i])

C7_Witness ==
    /\ pc = "archive"
    /\ Len(emails) >= 2
    /\ Truthy(summary_htmls[Len(emails)])
    /\ ~Truthy(summary_htmls[1])
    /\ summary_htmls[Len(emails)] # Card(emails[1])

AllHang ==
    /\ emails # <<>>
    /\ DOMAIN stub = DOMAIN emails
    /\ \A i \in DOMAIN stub : stub[i] = "hang"

\* C8: when no summarize call ever returns, then once the deadline has expired
\* the coordinator is not kept waiting for a worker, and the list it gets back
\* marks every item as failed.
C8_DeadlineReturnsControl ==
    (AllHang /\ pending_exc = "TimeoutError") =>
        /\ ~(pc = "pool_exit" /\ (Running \cup Queued) # {})
        /\ pc = "done" => result.status # "timeout"

\* C9: when the first item fails with an Auth error, at most maxConcurrency
\* further summarize calls are started after that failure, the units still
\* outstanding when the loop stops are cancelled, and every item that did not
\* complete is recorded as failed.
C9_FatalShortCircuit ==
    (stub # <<>> /\ stub[1] = "E401") =>
        /\ startedAfterFail <= MaxConcurrency(Len(emails))
        /\ (pc = "pool_exit" /\ ~should_continue) => Queued = {}
        /\ SchedulerReturned =>
              \A i \in (1..Len(emails)) \ yielded : ~Truthy(summary_htmls[i])

\* a run with one summarized item and one item failed by a rate-limit error
PartialRun ==
    /\ Successes # {}
    /\ \E j \in yielded : stub[j] = "E429"

\* C10: a run with a successful item and an item failed by a Transient error
\* is not aborted: unless delivery fails or the run is cut short by the
\* deadline or the operator, it ends "sent" with exactly the successful items
\* in the document.
C10_PartialSuccessSent ==
    (/\ pc = "done"
     /\ PartialRun
     /\ result.status \notin {"send_failed", "timeout", "interrupted"})
    => /\ result.status = "sent"
       /\ Len(final_html_body) = Cardinality(Successes)
       /\ Range(final_html_body) = {summary_htmls[k] : k \in Successes}

\* C11: the body compose_final_html_body renders holds exactly the non-empty
\* entries of its input, each once and nothing else, ordered by extracted
\* rating descending, and entries of equal rating keep their input order.
C11_ComposeSortedStable ==
    pc = "send" =>
        /\ Len(final_html_body) = Cardinality(Successes)
        /\ \E f \in [1..Len(final_html_body) -> Successes] :
              /\ \A k, l \in DOMAIN f : k # l => f[k] # f[l]
              /\ \A k \in DOMAIN f : final_html_body[k] = summary_htmls[f[k]]
              /\ \A k, l \in DOMAIN f : k < l =>
                    LET rk == ExtractRatingFromHtml(HtmlOf(summary_htmls[f[k]]))
                        rl == ExtractRatingFromHtml(HtmlOf(summary_htmls[f[l]]))
                    IN rk > rl \/ (rk = rl /\ f[k] < f[l])

C11_Witness ==
    /\ pc = "send"
    /\ Len(summary_htmls) = 3
    /\ summary_htmls[1] = None
    /\ Truthy(summary_htmls[2])
    /\ Truthy(summary_htmls[3])
    /\ ExtractRatingFromHtml(HtmlOf(summary_htmls[2]))
         < ExtractRatingFromHtml(HtmlOf(summary_htmls[3]))
    /\ final_html_body = <<summary_htmls[3], summary_htmls[2]>>

\* C12: a delivery attempt is retried only after a failure classified
\* Transient; after a Fatal failure no further attempt is made and the run
\* ends with the failed result.
C12_RetryOnlyTransient ==
    send_error = "fatal" => (pc = "done" /\ result.status = "send_failed")

\* C13: every run_pipeline call that has returned gave one result whose status
\* is one of no-work, sent, send_failed, timeout, interrupted, error, and that
\* result carries the number of items of the batch.
C13_OneResultWithCount ==
    pc = "done" =>
        /\ result.status \in {"no_new_emails", "sent", "send_failed",
                              "timeout", "interrupted", "error"}
        /\ result.has_count
        /\ result.email_count = Len(emails)

RollbackStatuses == {"send_failed", "timeout", "interrupted", "error"}

IsAuth == llm_error \cap {"401", "Unauthorized"} # {}
IsNotFound == "404" \in llm_error
IsRateLimited == Lower(llm_error) \cap {"429", "rate limit"} # {}
IsNetworkTimeout == Lower(llm_error) \cap {"connection", "timeout"} # {}
IsCredit == {"402", "Insufficient credits"} \subseteq llm_error

\* C15: handle_llm_error stops the processing for a message that is an
\* authentication error (401 / Unauthorized) or a not-found error (404), and
\* continues for a message that is a rate-limit error (429 / rate limit), a
\* network or timeout error, or none of these. Messages that carry the marks
\* of several of these classes, or the 402 credit marks, are left open.
C15_Classification ==
    pc = "classified" =>
        /\ (IsAuth /\ ~IsNotFound /\ ~IsRateLimited /\ ~IsNetworkTimeout)
              => ~should_continue
        /\ (IsNotFound /\ ~IsAuth /\ ~IsRateLimited /\ ~IsNetworkTimeout)
              => ~should_continue
        /\ (IsRateLimited /\ ~IsAuth /\ ~IsNotFound /\ ~IsNetworkTimeout /\ ~IsCredit)
              => should_continue
        /\ (IsNetworkTimeout /\ ~IsAuth /\ ~IsNotFound /\ ~IsRateLimited /\ ~IsCredit)
              => should_continue
        /\ (~IsAuth /\ ~IsNotFound /\ ~IsRateLimited /\ ~IsNetworkTimeout /\ ~IsCredit)
              => should_continue

\* C16: on a mailbox whose unread messages are all in INBOX, the batch intake
\* returns is the newest-first list of the messages whose id is not in the
\* store, cut to the limit clamped to 1..50.
C16_FilterThenTruncate ==
    (intake_done /\ mailbox["SPAM"] = {}) =>
        LET candidates == SortedReverse(mailbox["INBOX"])
            fresh == SelectSeq(candidates,
                         LAMBDA u : UniqId("INBOX", u) \notin LoadState(storeAtStart))
            expected == Take(fresh, ClampCount(limit))
        IN emails = [k \in 1..Len(expected) |-> Email("INBOX", expected[k])]

\* C17: every write of a state file is atomic: after any step the file the
\* reader registers in and the file the rollback rewrites are each either
\* what they were before the step or a complete record of an id set.
C17_AtomicWrites ==
    [][/\ (store' = store \/ store'.kind = "ok")
       /\ (rootStore' = rootStore \/ rootStore'.kind = "ok")]_vars

\* C18: a run that finds the reader's state file missing, unparseable or of
\* the wrong shape does not end with the error status on account of it, and
\* its intake returns the batch it returns for an empty store.
C18_BadRecordReadAsEmpty ==
    /\ (pc = "done" /\ storeAtStart.kind # "ok" /\ result.status = "error")
          => intake_done
    /\ (intake_done /\ storeAtStart.kind # "ok")
          => emails = EmailReaderResults(mailbox, File({}), limit)

\* C19: when intake returns an empty batch the run ends at once with the
\* no-work status, which is none of the failure statuses; no summarize call
\* is submitted, nothing is rendered, no delivery is attempted and neither
\* state file is changed.
C19_EmptyBatchNoWork ==
    (intake_done /\ emails = <<>>) =>
        /\ pc = "done"
        /\ result.status = "no_new_emails"
        /\ result.status \notin RollbackStatuses
        /\ fut = <<>>
        /\ stub = <<>>
        /\ final_html_body = <<>>
        /\ attempts = 0
        /\ store = storeAtStart
        /\ rootStore = rootStoreAtStart

C19_Witness ==
    /\ pc = "done"
    /\ intake_done
    /\ emails = <<>>
    /\ result.status = "no_new_emails"
    /\ mailbox["INBOX"] # {}
    /\ LoadState(storeAtStart) # {}

\* C20: when the deadline of the collect loop expires after some summaries
\* were collected, the run is not ended by the timeout: the collected
\* summaries are kept and the run goes on to compose the document.
C20_TimeoutKeepsCompleted ==
    (pc = "done" /\ pending_exc = "TimeoutError" /\ Successes # {})
        => result.status # "timeout"

\* a batch in which an item fails with a rate-limit error and none with an
\* authentication error
TransientOnly ==
    /\ stub # <<>>
    /\ \E j \in DOMAIN stub : stub[j] = "E429"
    /\ \A j \in DOMAIN stub : stub[j] # "E401"

C22_FatalKeepsCollected ==
    (~should_continue /\ pc \in {"pool_exit", "archive", "compose", "send"}) =>
        /\ Len(summary_htmls) = Len(emails)
        /\ \A i \in yielded :
              stub[i] = "ok" => summary_htmls[i] = Card(emails[i])

C22_Witness ==
    /\ pc = "archive"
    /\ ~should_continue
    /\ Len(emails) = 2
    /\ stub[2] = "E401"
    /\ summary_htmls[1] = Card(emails[1])

\* C23: in every run delivery is attempted at most 3 times, no attempt
\* follows one that succeeded, and the third failed attempt ends the run
\* with status send_failed.
C23_AtMostThreeAttempts ==
    /\ attempts <= 3
    /\ pc = "send" => (attempts < 3 /\ result = NoResult)
    /\ result.status = "sent" => (pc = "done" /\ attempts >= 1)
    /\ (pc = "done" /\ attempts = 3 /\ result.status # "sent")
          => result.status = "send_failed"

C23_Witness ==
    /\ pc = "done"
    /\ attempts = 3
    /\ result.status = "send_failed"
    /\ send_error = "transient"

\* C24: while the summarize calls of a batch of N items are under way, at
\* most min(8, N) of them are in progress, and the pool is never created
\* with fewer than one thread.
C24_ConcurrencyCapped ==
    /\ pc \in {"collect", "pool_exit"} =>
          Cardinality(Running) <= Min2(8, Len(emails))
    /\ \A n \in 0..Len(emails) : MaxConcurrency(n) >= 1

C24_Witness ==
    /\ pc = "collect"
    /\ Len(emails) > 8
    /\ Cardinality(Running) = 8
    /\ Queued # {}
    /\ yielded # {}

\* C25: a KeyboardInterrupt raised in the collect loop ends the run with
\* status interrupted, never timeout or error; no delivery attempt is made
\* and no archive or mail body is built from the results of that run.
C25_InterruptEndsInterrupted ==
    pending_exc = "KeyboardInterrupt" =>
        /\ pc \in {"pool_exit", "done"}
        /\ pc = "done" => result = Result("interrupted", emails)
        /\ attempts = 0
        /\ final_html_body = <<>>
        /\ archive_path = FALSE
        /\ deliveredIds \cap Ids(emails) = {}

C25_Witness ==
    /\ pc = "done"
    /\ pending_exc = "KeyboardInterrupt"
    /\ result.status = "interrupted"
    /\ Successes # {}
    /\ yielded # DOMAIN fut

\* C27: when the reader returns an error instead of a batch, the run ends
\* with the result of an empty mailbox (status no_new_emails), no summarize
\* call is submitted, no delivery is attempted, and both state files are
\* the ones the run started with.
C27_ReadFailureIsNoWork ==
    ~intake_done =>
        /\ pc \in {"idle", "read", "done"}
        /\ fut = <<>>
        /\ attempts = 0
        /\ store = storeAtStart
        /\ (pc = "done" /\ result.status # "interrupted") =>
              /\ result = [status |-> "no_new_emails", has_count |-> FALSE,
                            email_count |-> 0]
              /\ emails = <<>>
              /\ rootStore = rootStoreAtStart

C27_Witness ==
    /\ pc = "done"
    /\ ~intake_done
    /\ result.status = "no_new_emails"
    /\ EmailReaderResults(mailbox, store, limit) # <<>>
    /\ store = storeAtStart

\* C28: from the submission to the end of the run, a position of the
\* result list that the collect loop has not reached holds None, a position
\* it has reached holds what the call of that same item returned (None when
\* it raised), and a non-empty entry belongs to a call that returned a card.
C28_ResultsWrittenByCollector ==
    pc \in {"collect", "pool_exit", "archive", "compose", "send"} =>
        /\ DOMAIN summary_htmls = DOMAIN emails
        /\ \A i \in DOMAIN summary_htmls :
              /\ i \notin yielded => summary_htmls[i] = None
              /\ i \in yielded =>
                    summary_htmls[i] = IF stub[i] \in Errors THEN None
                                       ELSE StoredResult(i)
              /\ Truthy(summary_htmls[i]) =>
                    (stub[i] = "ok" /\ fut[i] = "finished" /\ i \in yielded)

C28_Witness ==
    /\ pc = "archive"
    /\ pending_exc = "none"
    /\ ~should_continue
    /\ Len(emails) = 2
    /\ yielded = {1}
    /\ stub[2] = "ok"
    /\ fut[2] = "finished"
    /\ summary_htmls[2] = None

\* C29: no two records of the batch an intake returns have the same id.
C29_BatchIdsDistinct ==
    intake_done =>
        \A k, l \in DOMAIN emails : k # l => emails[k].id # emails[l].id

\* C30: every message among the newest max_count of a folder whose id is
\* not in the state file the intake loaded has its id in the batch.
C30_NoMessageSkipped ==
    intake_done =>
        \A f \in Folders :
            \A u \in Range(Take(SortedReverse(mailbox[f]), ClampCount(limit))) :
                UniqId(f, u) \notin LoadState(storeAtStart)
                    => UniqId(f, u) \in Ids(emails)

\* C26: _extract_rating_from_html returns a natural number for every
\* argument; 0 for an argument that is not a str and for a text with neither
\* a rating cell nor a line with a star; the filled stars of the rating cell
\* when the text has one, and otherwise those of the first line with a star.
C26_RatingTotal ==
    pc = "rated" =>
        /\ rating \in 0..MaxStars
        /\ ~snippet.isstr => rating = 0
        /\ (snippet.cells = <<>> /\ StarLines(snippet) = {}) => rating = 0
        /\ snippet.cells # <<>> => rating = snippet.cells[1]
        /\ (snippet.isstr /\ snippet.cells = <<>>) =>
              \A k \in StarLines(snippet) :
                  (\A j \in StarLines(snippet) : k <= j)
                      => rating = snippet.lines[k].filled

C26_Witness ==
    /\ pc = "rated"
    /\ Len(snippet.cells) = 2
    /\ snippet.cells[1] = 1
    /\ snippet.cells[2] = 2
    /\ Len(snippet.lines) = 2
    /\ snippet.lines[1].filled = 2
    /\ rating = 1

====
